---------------------------- MODULE Spec2Model ----------------------------
(***************************************************************************)
(* The question-answering workflow of the phone advisor                    *)
(* (src/langgraph_agent.py): a LangGraph StateGraph over RAGState compiled *)
(* with an InMemorySaver checkpointer, driven by PhoneRAGGraph.ask, on top *)
(* of DatabaseManager.execute_query (src/database.py).                     *)
(*                                                                         *)
(* Text is a sequence of strings.  SQL text and model output are sequences *)
(* of one-character strings, so that len(), strip(), rstrip(";") and the   *)
(* fence regex are computed character by character.  Fixed message texts   *)
(* of the program are one-element sequences holding the whole literal.     *)
(* An optional value (a state key that may be absent) is <<>> when absent  *)
(* and <<v>> when present.                                                 *)
(***************************************************************************)
EXTENDS Naturals, Sequences, FiniteSets, TLC

VARIABLES
    checkpoint,  \* InMemorySaver: thread_id -> the persisted RAGState values
    pc,          \* the node the in-flight invoke is about to run, or "idle"
    cur,         \* thread_id of the in-flight (or last) ask call
    txn,         \* transaction status of DatabaseManager's one connection
    catalog,     \* committed rows of samsung_phones (the phones' names)
    turn,        \* observations of the in-flight turn (calls made, nodes visited)
    result,      \* outcome of the last finished ask call (optional)
    asked,       \* thread_id -> the questions passed to ask, in call order
    cleanIn,     \* input of the _clean_sql harness
    cleanOut,    \* output of the _clean_sql harness
    cleanDone,   \* the harness has applied _clean_sql
    runs,        \* ask calls running on concurrent caller threads
    api,         \* api.py: its two globals and the request being served
    cli          \* main.py: the interactive loop around PhoneRAGAgent

vars ==
    <<checkpoint, pc, cur, txn, catalog, turn, result, asked, cleanIn, cleanOut,
      cleanDone, runs, api, cli>>

wfVars == <<checkpoint, pc, cur, txn, catalog, turn, result, asked>>
cleanVars == <<cleanIn, cleanOut, cleanDone>>
concVars == <<runs>>
appVars == <<api, cli>>

---------------------------------------------------------------------------
(* Bounds *)

MaxTurns == 2        \* ask calls per behaviour
MaxCleanLen == 6     \* length of the enumerated _clean_sql inputs
MaxPrompts == 2      \* questions typed into interactive_mode per behaviour

---------------------------------------------------------------------------
(* Optional values *)

None == <<>>
Some(v) == <<v>>
IsSome(o) == o /= <<>>
Get(o, default) == IF o = <<>> THEN default ELSE o[1]

\* Python truthiness of state.get(key) for a str / list valued key
Truthy(o) == o /= <<>> /\ o[1] /= <<>>

---------------------------------------------------------------------------
(* Python string primitives *)

Whitespace == {" ", "\n", "\t"}
\* the backtick character (written as a token: the lexer takes no backtick in a string)
BT == "BACKTICK"

Lower(c) ==
    IF c = "S" THEN "s" ELSE IF c = "Q" THEN "q" ELSE IF c = "L" THEN "l" ELSE c

RECURSIVE LStripSet(_, _)
LStripSet(s, cs) ==
    IF s = <<>> THEN s
    ELSE IF Head(s) \in cs THEN LStripSet(Tail(s), cs) ELSE s

RECURSIVE RStripSet(_, _)
RStripSet(s, cs) ==
    IF s = <<>> THEN s
    ELSE IF s[Len(s)] \in cs THEN RStripSet(SubSeq(s, 1, Len(s) - 1), cs) ELSE s

\* str.strip()
Strip(s) == RStripSet(LStripSet(s, Whitespace), Whitespace)

IsFenceAt(s) == Len(s) >= 3 /\ s[1] = BT /\ s[2] = BT /\ s[3] = BT

IsTaggedFenceAt(s) ==
    /\ IsFenceAt(s)
    /\ Len(s) >= 6
    /\ Lower(s[4]) = "s" /\ Lower(s[5]) = "q" /\ Lower(s[6]) = "l"

\* RemoveFences as it would be with the pattern reduced to the bare fence:
\* the language tag after a fence stays in the text
RECURSIVE RemoveFences_BareOnly(_)
RemoveFences_BareOnly(s) ==
    IF s = <<>> THEN <<>>
    ELSE IF IsFenceAt(s) THEN RemoveFences_BareOnly(SubSeq(s, 4, Len(s)))
    ELSE <<Head(s)>> \o RemoveFences_BareOnly(Tail(s))

\* re.sub of the pattern  BT BT BT (?:sql)? | BT BT BT  with re.IGNORECASE: leftmost,
\* non-overlapping matches, the optional tag taken when it is there
RECURSIVE RemoveFences(_)
RemoveFences(s) ==
    IF s = <<>> THEN <<>>
    ELSE IF IsTaggedFenceAt(s) THEN RemoveFences(SubSeq(s, 7, Len(s)))
    ELSE IF IsFenceAt(s) THEN RemoveFences(SubSeq(s, 4, Len(s)))
    ELSE <<Head(s)>> \o RemoveFences(Tail(s))

\* sql.strip().rstrip(";") as it would be with a second strip() after it
StripAndTerminator_Restrip(s) == Strip(RStripSet(Strip(s), {";"}))

\* strip(), then one trailing semicolon removed if there is one
StripAndTerminator_Single(s) ==
    LET t == Strip(s)
    IN  IF t /= <<>> /\ t[Len(t)] = ";" THEN SubSeq(t, 1, Len(t) - 1) ELSE t

\* sql.strip().rstrip(";")
StripAndTerminator(s) == RStripSet(Strip(s), {";"})

CleanSql(sql_text) == StripAndTerminator(RemoveFences(sql_text))

HasFence(s) == \E i \in 1..Len(s) : IsFenceAt(SubSeq(s, i, Len(s)))

---------------------------------------------------------------------------
(* Literals of the program *)

NoResultsMsg ==
    <<"I couldn't find any phones matching your criteria. Try rephrasing your question or asking about different specifications.">>

ErrorPrefix == <<"I encountered an issue processing your question: ">>

ErrorSuffix ==
    <<"\n\nPlease try rephrasing your question or ask something else about Samsung phones.">>

UnknownError == <<"Unknown error occurred">>

DatabaseErrorPrefix == <<"Database error: ">>

MinSqlLen == 10

---------------------------------------------------------------------------
(* The environment: callers, the language model, the database server *)

Threads == {"t1", "t2"}

Questions == {<<"Which phones have 5G?">>, <<"Compare S25 and S24">>}

SelectName == <<"S", "E", "L", "E", "C", "T", " ", "n", "a", "m", "e">>

FencedSelectName ==
    <<BT, BT, BT, "s", "q", "l", "\n">> \o SelectName \o <<";", "\n", BT, BT, BT>>

CommentOnly == <<"-", "-", " ", "n", "o", " ", "q", "u", "e", "r", "y">>

\* a text of exactly ten characters
SelectNam == <<"S", "E", "L", "E", "C", "T", " ", "n", "a", "m">>

\* texts the SQL-synthesis model call can return
\* "DELETE FROM t" (13 characters), a statement that changes the table
DeleteFrom ==
    <<"D", "E", "L", "E", "T", "E", " ", "F", "R", "O", "M", " ", "t">>

SqlOutputs ==
    {<<>>, <<"n", "o">>, SelectNam, SelectName, FencedSelectName, CommentOnly,
     DeleteFrom}

\* texts the answer-synthesis model call can return
AnswerOutputs == {<<>>, <<" ", "\n">>, <<" ", "A", "\n">>, <<"B">>}

\* column names of the cursor's description for a SELECT
Columns == <<"name">>

\* tuples a statement can fetch, in the server's order
TupleSets ==
    {<<>>, << <<"Galaxy S25">> >>, << <<"Galaxy S24">>, <<"Galaxy S25">> >>}

\* errors the server reports for a statement; they abort the open transaction
ServerErrors == {<<"syntax error at or near">>}

\* the error raised for an empty statement; the transaction stays usable
EmptyQueryError == <<"can't execute an empty query">>

InFailedTransaction == <<"current transaction is aborted">>

---------------------------------------------------------------------------
(* DatabaseManager.execute_query *)

\* a statement with nothing to execute (a comment only)
IsEmptyStatement(query) == Len(query) >= 2 /\ query[1] = "-" /\ query[2] = "-"

\* a statement that changes rows instead of returning some
IsWriteStatement(query) == Len(query) >= 1 /\ query[1] = "D"

\* the rows of the table before any statement of the program has run
InitialCatalog == {"Galaxy S24", "Galaxy S25"}

\* what is left of the table once the write statement has run
AfterWrite(query, cat) == {}

\* the tuple sequences a SELECT can fetch from the table
Selectable(cat) ==
    {ts \in TupleSets : \A i \in 1..Len(ts) : ts[i][1] \in cat}

\* what the server can answer to one statement, given the transaction
\* status of the connection and the table: in an aborted transaction every
\* statement is refused; an empty statement is reported without aborting
\* the transaction; a write has no result set
DbResponses(t, query, cat) ==
    IF t = "aborted"
    THEN {[kind |-> "error", text |-> InFailedTransaction, aborts |-> TRUE,
           tuples |-> <<>>]}
    ELSE IF IsEmptyStatement(query)
    THEN {[kind |-> "error", text |-> EmptyQueryError, aborts |-> FALSE,
           tuples |-> <<>>]}
    ELSE (IF IsWriteStatement(query)
          THEN {[kind |-> "done", text |-> <<>>, aborts |-> FALSE, tuples |-> <<>>]}
          ELSE {[kind |-> "rows", text |-> <<>>, aborts |-> FALSE, tuples |-> ts] :
                   ts \in Selectable(cat)})
         \cup {[kind |-> "error", text |-> e, aborts |-> TRUE, tuples |-> <<>>] :
                   e \in ServerErrors}

\* dict(zip(columns, row))
ZipRow(columns, row) ==
    [c \in {columns[i] : i \in 1..Len(columns)} |->
        row[CHOOSE i \in 1..Len(columns) : columns[i] = c]]

\* cursor.execute opens a transaction and raises (no commit, no rollback),
\* or the rows are fetched (none for a statement without a result set:
\* fetchall's ProgrammingError is caught), the transaction is committed,
\* which makes a write durable, and the rows are returned as dicts
execute_query(query, t, resp, cat) ==
    IF resp.kind = "error"
    THEN [raised |-> TRUE, text |-> resp.text, rows |-> <<>>,
          txn |-> IF resp.aborts THEN "aborted" ELSE "intrans",
          catalog |-> cat]
    ELSE [raised |-> FALSE, text |-> <<>>,
          rows |-> [i \in 1..Len(resp.tuples) |-> ZipRow(Columns, resp.tuples[i])],
          txn |-> "idle",
          catalog |-> IF resp.kind = "done" THEN AfterWrite(query, cat) ELSE cat]

---------------------------------------------------------------------------
(* RAGState and the graph's nodes and routers *)

\* RAGState with no key written yet (a thread never used)
EmptyState ==
    [messages |-> <<>>, question |-> None, sql_query |-> None,
     db_results |-> None, final_answer |-> None, error |-> None]

HumanMessage(content) == [role |-> "user", content |-> content]
AIMessage(content) == [role |-> "assistant", content |-> content]

\* the messages key as it would be without a reducer: the update replaces it
add_messages_Overwrite(left, right) == right

\* the add_messages reducer of the messages key: new messages are appended
add_messages(left, right) == left \o right

\* str(last_message) of a message that is no HumanMessage
StrOfMessage(m) == <<"content='">> \o m.content \o <<"'">>

\* extract_question_node as it would be reading the first message
extract_question_node_First(state) ==
    LET first_message == state.messages[1]
    IN  IF first_message.role = "user"
        THEN first_message.content
        ELSE StrOfMessage(first_message)

extract_question_node(state) ==
    LET last_message == state.messages[Len(state.messages)]
    IN  IF last_message.role = "user"
        THEN last_message.content
        ELSE StrOfMessage(last_message)

\* check_sql_valid as it would be with len(sql_query) >= 10
check_sql_valid_AtLeast(state) ==
    LET sql_query == Get(state.sql_query, <<>>)
    IN  IF sql_query /= <<>> /\ Len(sql_query) >= MinSqlLen
        THEN "valid" ELSE "invalid"

\* check_sql_valid as it would be without the length test
check_sql_valid_NoLength(state) ==
    IF Get(state.sql_query, <<>>) /= <<>> THEN "valid" ELSE "invalid"

check_sql_valid(state) ==
    LET sql_query == Get(state.sql_query, <<>>)
    IN  IF sql_query /= <<>> /\ Len(sql_query) > MinSqlLen
        THEN "valid" ELSE "invalid"

check_results(state) ==
    IF Truthy(state.error) THEN "error" ELSE "success"

\* the conditional edges out of generate_sql
AfterGenerateSql(route) ==
    IF route = "valid" THEN "execute_query" ELSE "handle_error"

\* the conditional edges out of execute_query as they would be with a retry
\* edge back to generate_sql
AfterExecuteQuery_Retry(route) ==
    IF route = "success" THEN "generate_answer" ELSE "generate_sql"

\* the conditional edges out of execute_query
AfterExecuteQuery(route) ==
    IF route = "success" THEN "generate_answer" ELSE "handle_error"

DatabaseError(text) == DatabaseErrorPrefix \o text

ErrorAnswer(error) == ErrorPrefix \o error \o ErrorSuffix

\* handle_error_node as it would be if it never read the state's error
handle_error_node_IgnoresError(state) == ErrorAnswer(UnknownError)

handle_error_node(state) == ErrorAnswer(Get(state.error, UnknownError))

\* response.content.strip()
AnswerOf(content) == Strip(content)

\* execute_query_node as it would be if it dropped the exception's text
execute_query_node_NoText(state, r) ==
    IF r.raised
    THEN [state EXCEPT !.error = Some(DatabaseErrorPrefix)]
    ELSE [state EXCEPT !.db_results = Some(r.rows)]

\* the update execute_query_node returns, applied to the state: db_results
\* on success, error on an exception; the other key keeps its stored value
execute_query_node(state, r) ==
    IF r.raised
    THEN [state EXCEPT !.error = Some(DatabaseError(r.text))]
    ELSE [state EXCEPT !.db_results = Some(r.rows)]

\* the update of generate_answer_node and handle_error_node, applied to the
\* state: final_answer, and the answer appended as an assistant message
WithAnswer(state, answer) ==
    [state EXCEPT !.final_answer = Some(answer),
                  !.messages = add_messages(@, <<AIMessage(answer)>>)]

\* the input as it would be applied were messages a plain (overwritten) key
ApplyInput_Replace(state, question) ==
    [state EXCEPT !.messages = <<HumanMessage(question)>>]

\* app.invoke's input {"messages": [HumanMessage(question)]} applied to the
\* thread's checkpoint: every other key keeps its checkpointed value
ApplyInput(state, question) ==
    [state EXCEPT !.messages = add_messages(@, <<HumanMessage(question)>>)]

\* the dict ask builds from the final state
AskResult(state) ==
    [raised |-> FALSE,
     answer |-> Get(state.final_answer, <<>>),
     sql_query |-> Get(state.sql_query, <<>>),
     results |-> Get(state.db_results, <<>>)]

\* ask did not return: the exception of a model call left app.invoke
AskRaised == [raised |-> TRUE, answer |-> <<>>, sql_query |-> <<>>, results |-> <<>>]

get_conversation_history(thread_id) == checkpoint[thread_id].messages

---------------------------------------------------------------------------
(* Observations of one turn *)

NewTurn(q) ==
    [question |-> q,        \* the text passed to ask
     visited |-> <<>>,      \* nodes run, in order
     sqlCalls |-> 0,        \* SQL-synthesis model calls
     sqlOut |-> None,       \* text the SQL model returned (optional)
     answerCalls |-> 0,     \* answer-synthesis model calls
     storeCalls |-> <<>>,   \* statements passed to db.execute_query
     storeOut |-> None,     \* what db.execute_query did (optional)
     answerOut |-> None]    \* text the answer model returned (optional)

Visit(node) == [turn EXCEPT !.visited = Append(@, node)]

TurnsStarted == Len(asked["t1"]) + Len(asked["t2"])

state == checkpoint[cur]

---------------------------------------------------------------------------
(* The workflow, one action per step of ask *)

WorkflowInit ==
    /\ checkpoint = [t \in Threads |-> EmptyState]
    /\ pc = "idle"
    /\ cur = "t1"
    /\ txn = "idle"
    /\ catalog = InitialCatalog
    /\ turn = NewTurn(<<>>)
    /\ result = None
    /\ asked = [t \in Threads |-> <<>>]

CleanIdle == cleanIn = <<>> /\ cleanOut = <<>> /\ cleanDone = FALSE

\* the caller threads of the concurrent specification, one ask call each
Runs == {"r1", "r2"}

\* an ask call not made yet
NewRun ==
    [pc |-> "new",          \* position of the call
     thread |-> "t1",       \* its thread_id argument
     q |-> <<>>,            \* its question argument
     st |-> EmptyState,     \* the state values app.invoke holds for this run
     result |-> None,       \* what ask returned (optional)
     overlapped |-> FALSE]  \* it loaded the checkpoint while another call on
                            \* the same thread_id had not made its last save

NoRuns == runs = [r \in Runs |-> NewRun]

\* api.py as imported: the globals db_manager and rag_agent are None
ApiIdle ==
    api = [started |-> "no",        \* startup_event: "no", "up" or "failed"
           db_manager |-> "None",   \* None, or the manager: "unconnected", "connected"
           rag_agent |-> "None",    \* None or "ready"
           pending |-> None,        \* thread_id of the /ask request being served
           last |-> None]           \* the response to the last request served

\* main.py before interactive_mode
CliIdle ==
    cli = [pc |-> "off",         \* position in interactive_mode / answer_question
           asked |-> 0,          \* questions passed to answer_question
           sql |-> None,         \* generate_sql's result for this question (optional)
           storeCalls |-> 0,     \* db.execute_query calls for this question
           storeOut |-> None,    \* what db.execute_query did (optional)
           summaryCalls |-> 0,   \* _generate_summary calls for this question
           out |-> None,         \* what was printed for this question (optional)
           reported |-> <<>>,    \* the exceptions printed so far
           quit |-> FALSE]       \* the user typed an exit word or pressed Ctrl-C

Init == WorkflowInit /\ CleanIdle /\ NoRuns /\ ApiIdle /\ CliIdle

\* ask(question, thread_id): app.invoke starts a run on the thread
StartTurn(t, q) ==
    /\ pc = "idle"
    /\ TurnsStarted < MaxTurns
    /\ checkpoint' = [checkpoint EXCEPT ![t] = ApplyInput(@, q)]
    /\ pc' = "extract_question"
    /\ cur' = t
    /\ turn' = NewTurn(q)
    /\ result' = None
    /\ asked' = [asked EXCEPT ![t] = Append(@, q)]
    /\ UNCHANGED <<txn, catalog, cleanVars, concVars, cli>>

\* ask called directly, not through the API
AskStart(t, q) == StartTurn(t, q) /\ UNCHANGED api

ExtractQuestion ==
    /\ pc = "extract_question"
    /\ checkpoint' = [checkpoint EXCEPT
           ![cur].question = Some(extract_question_node(state))]
    /\ pc' = "generate_sql"
    /\ turn' = Visit("extract_question")
    /\ UNCHANGED <<cur, txn, catalog, result, asked, cleanVars, concVars, appVars>>

\* generate_sql_node returns, then the check_sql_valid edge
GenerateSqlReturns ==
    /\ pc = "generate_sql"
    /\ \E content \in SqlOutputs :
         LET new == [state EXCEPT !.sql_query = Some(CleanSql(content))]
         IN  /\ checkpoint' = [checkpoint EXCEPT ![cur] = new]
             /\ pc' = AfterGenerateSql(check_sql_valid(new))
             /\ turn' = [Visit("generate_sql") EXCEPT
                            !.sqlCalls = @ + 1, !.sqlOut = Some(content)]
    /\ UNCHANGED <<cur, txn, catalog, result, asked, cleanVars, concVars, appVars>>

\* llm.invoke raises in generate_sql_node: nothing catches it
GenerateSqlRaises ==
    /\ pc = "generate_sql"
    /\ pc' = "idle"
    /\ turn' = [Visit("generate_sql") EXCEPT !.sqlCalls = @ + 1]
    /\ result' = Some(AskRaised)
    /\ UNCHANGED <<checkpoint, cur, txn, catalog, asked, cleanVars, concVars, appVars>>

\* execute_query_node, then the check_results edge
ExecuteQuery ==
    /\ pc = "execute_query"
    /\ \E resp \in DbResponses(txn, state.sql_query[1], catalog) :
         LET sql_query == state.sql_query[1]
             r == execute_query(sql_query, txn, resp, catalog)
             new == execute_query_node(state, r)
         IN  /\ checkpoint' = [checkpoint EXCEPT ![cur] = new]
             /\ txn' = r.txn
             /\ catalog' = r.catalog
             /\ pc' = AfterExecuteQuery(check_results(new))
             /\ turn' = [Visit("execute_query") EXCEPT
                            !.storeCalls = Append(@, sql_query),
                            !.storeOut = Some(r)]
    /\ UNCHANGED <<cur, result, asked, cleanVars, concVars, appVars>>

\* generate_answer_node with no rows: the canned answer, no model call
GenerateAnswerEmpty ==
    /\ pc = "generate_answer"
    /\ state.db_results[1] = <<>>
    /\ checkpoint' = [checkpoint EXCEPT ![cur] = WithAnswer(@, NoResultsMsg)]
    /\ pc' = "END"
    /\ turn' = Visit("generate_answer")
    /\ UNCHANGED <<cur, txn, catalog, result, asked, cleanVars, concVars, appVars>>

\* generate_answer_node with rows: the model's text, stripped
GenerateAnswerReturns ==
    /\ pc = "generate_answer"
    /\ state.db_results[1] /= <<>>
    /\ \E content \in AnswerOutputs :
         /\ checkpoint' = [checkpoint EXCEPT
                ![cur] = WithAnswer(@, AnswerOf(content))]
         /\ turn' = [Visit("generate_answer") EXCEPT
                        !.answerCalls = @ + 1, !.answerOut = Some(content)]
    /\ pc' = "END"
    /\ UNCHANGED <<cur, txn, catalog, result, asked, cleanVars, concVars, appVars>>

\* generate_answer_node as it would be with the model call in a try/except
\* that records the error and leaves the turn to handle_error
GenerateAnswerRaises_Handled ==
    /\ pc = "generate_answer"
    /\ state.db_results[1] /= <<>>
    /\ checkpoint' = [checkpoint EXCEPT ![cur].error = Some(UnknownError)]
    /\ pc' = "handle_error"
    /\ turn' = [Visit("generate_answer") EXCEPT !.answerCalls = @ + 1]
    /\ UNCHANGED <<cur, txn, catalog, result, asked, cleanVars, concVars, appVars>>

\* llm.invoke raises in generate_answer_node: nothing catches it
GenerateAnswerRaises ==
    /\ pc = "generate_answer"
    /\ state.db_results[1] /= <<>>
    /\ pc' = "idle"
    /\ turn' = [Visit("generate_answer") EXCEPT !.answerCalls = @ + 1]
    /\ result' = Some(AskRaised)
    /\ UNCHANGED <<checkpoint, cur, txn, catalog, asked, cleanVars, concVars, appVars>>

HandleError ==
    /\ pc = "handle_error"
    /\ checkpoint' = [checkpoint EXCEPT
           ![cur] = WithAnswer(@, handle_error_node(@))]
    /\ pc' = "END"
    /\ turn' = Visit("handle_error")
    /\ UNCHANGED <<cur, txn, catalog, result, asked, cleanVars, concVars, appVars>>

\* the graph reached END: app.invoke returns the final state to ask
AskReturn ==
    /\ pc = "END"
    /\ result' = Some(AskResult(state))
    /\ pc' = "idle"
    /\ UNCHANGED <<checkpoint, cur, txn, catalog, turn, asked, cleanVars, concVars, appVars>>

Next ==
    \/ \E t \in Threads, q \in Questions : AskStart(t, q)
    \/ ExtractQuestion
    \/ GenerateSqlReturns
    \/ GenerateSqlRaises
    \/ ExecuteQuery
    \/ GenerateAnswerEmpty
    \/ GenerateAnswerReturns
    \/ GenerateAnswerRaises
    \/ HandleError
    \/ AskReturn

Spec == Init /\ [][Next]_vars

---------------------------------------------------------------------------
(* _clean_sql on its own: every input up to a length, and the examples *)

CleanAlphabet == {BT, "s", "q", "l", "Q", " ", ";"}

Select1 == <<"S", "E", "L", "E", "C", "T", " ", "1">>

\* the fenced, language-tagged, semicolon-terminated statement
FencedSelect1 ==
    <<BT, BT, BT, "s", "q", "l", " ">> \o Select1 \o <<";", " ", BT, BT, BT>>

CleanInputs ==
    UNION {[1..n -> CleanAlphabet] : n \in 0..MaxCleanLen}
        \cup {FencedSelect1, Select1 \o <<";", ";">>}

InitClean ==
    /\ WorkflowInit
    /\ NoRuns
    /\ ApiIdle
    /\ CliIdle
    /\ cleanIn \in CleanInputs
    /\ cleanOut = <<>>
    /\ cleanDone = FALSE

ApplyClean ==
    /\ ~cleanDone
    /\ cleanOut' = CleanSql(cleanIn)
    /\ cleanDone' = TRUE
    /\ UNCHANGED <<cleanIn, wfVars, concVars, appVars>>

NextClean == ApplyClean

SpecClean == InitClean /\ [][NextClean]_vars

---------------------------------------------------------------------------
(* ask called from concurrent caller threads: ask takes no lock.  Each     *)
(* app.invoke loads the thread_id's latest checkpoint once, works on its   *)
(* own copy of the state values, and puts a checkpoint after the input and *)
(* after every node; the saver's latest checkpoint of a thread_id is the   *)
(* one put last.                                                           *)

\* config = {"configurable": {"thread_id": thread_id}} as it would be with
\* the default thread_id in place of the argument
ThreadConfig_Default(thread_id) == "t1"

\* config = {"configurable": {"thread_id": thread_id}}: the saver's key
ThreadConfig(thread_id) == thread_id

Key(r) == ThreadConfig(runs[r].thread)

\* the run has loaded its state and has not put its last checkpoint
InFlight(r) ==
    runs[r].pc \in {"loaded", "extract_question", "generate_sql",
                    "execute_query", "generate_answer", "handle_error"}

\* the run's state values after a step, put as the latest checkpoint
Put(r, new, next) ==
    /\ runs' = [runs EXCEPT ![r].st = new, ![r].pc = next]
    /\ checkpoint' = [checkpoint EXCEPT ![Key(r)] = new]

ConcFrame == UNCHANGED <<pc, cur, turn, result, asked, cleanVars, appVars>>

\* ask(question, thread_id) on a caller thread: app.invoke loads the checkpoint
CLoad(r, t, q) ==
    /\ runs[r].pc = "new"
    /\ runs' = [runs EXCEPT ![r] =
           [pc |-> "loaded", thread |-> t, q |-> q,
            st |-> checkpoint[ThreadConfig(t)], result |-> None,
            overlapped |-> \E o \in Runs \ {r} :
                               /\ InFlight(o)
                               /\ Key(o) = ThreadConfig(t)]]
    /\ UNCHANGED <<checkpoint, txn, catalog>>
    /\ ConcFrame

\* the input is applied to the loaded state and the checkpoint is put
CInput(r) ==
    /\ runs[r].pc = "loaded"
    /\ Put(r, ApplyInput(runs[r].st, runs[r].q), "extract_question")
    /\ UNCHANGED <<txn, catalog>>
    /\ ConcFrame

CExtractQuestion(r) ==
    /\ runs[r].pc = "extract_question"
    /\ Put(r, [runs[r].st EXCEPT
                  !.question = Some(extract_question_node(runs[r].st))],
           "generate_sql")
    /\ UNCHANGED <<txn, catalog>>
    /\ ConcFrame

CGenerateSqlReturns(r) ==
    /\ runs[r].pc = "generate_sql"
    /\ \E content \in SqlOutputs :
         LET new == [runs[r].st EXCEPT !.sql_query = Some(CleanSql(content))]
         IN  Put(r, new, AfterGenerateSql(check_sql_valid(new)))
    /\ UNCHANGED <<txn, catalog>>
    /\ ConcFrame

CGenerateSqlRaises(r) ==
    /\ runs[r].pc = "generate_sql"
    /\ runs' = [runs EXCEPT ![r].pc = "raised"]
    /\ UNCHANGED <<checkpoint, txn, catalog>>
    /\ ConcFrame

CExecuteQuery(r) ==
    /\ runs[r].pc = "execute_query"
    /\ \E resp \in DbResponses(txn, runs[r].st.sql_query[1], catalog) :
         LET res == execute_query(runs[r].st.sql_query[1], txn, resp, catalog)
             new == execute_query_node(runs[r].st, res)
         IN  /\ Put(r, new, AfterExecuteQuery(check_results(new)))
             /\ txn' = res.txn
             /\ catalog' = res.catalog
    /\ ConcFrame

CGenerateAnswerEmpty(r) ==
    /\ runs[r].pc = "generate_answer"
    /\ runs[r].st.db_results[1] = <<>>
    /\ Put(r, WithAnswer(runs[r].st, NoResultsMsg), "END")
    /\ UNCHANGED <<txn, catalog>>
    /\ ConcFrame

CGenerateAnswerReturns(r) ==
    /\ runs[r].pc = "generate_answer"
    /\ runs[r].st.db_results[1] /= <<>>
    /\ \E content \in AnswerOutputs :
         Put(r, WithAnswer(runs[r].st, AnswerOf(content)), "END")
    /\ UNCHANGED <<txn, catalog>>
    /\ ConcFrame

CGenerateAnswerRaises(r) ==
    /\ runs[r].pc = "generate_answer"
    /\ runs[r].st.db_results[1] /= <<>>
    /\ runs' = [runs EXCEPT ![r].pc = "raised"]
    /\ UNCHANGED <<checkpoint, txn, catalog>>
    /\ ConcFrame

CHandleError(r) ==
    /\ runs[r].pc = "handle_error"
    /\ Put(r, WithAnswer(runs[r].st, handle_error_node(runs[r].st)), "END")
    /\ UNCHANGED <<txn, catalog>>
    /\ ConcFrame

\* app.invoke returns the run's own final state values to ask
CReturn(r) ==
    /\ runs[r].pc = "END"
    /\ runs' = [runs EXCEPT ![r].pc = "returned",
                            ![r].result = Some(AskResult(runs[r].st))]
    /\ UNCHANGED <<checkpoint, txn, catalog>>
    /\ ConcFrame

NextConc ==
    \E r \in Runs :
        \/ \E t \in Threads, q \in Questions : CLoad(r, t, q)
        \/ CInput(r)
        \/ CExtractQuestion(r)
        \/ CGenerateSqlReturns(r)
        \/ CGenerateSqlRaises(r)
        \/ CExecuteQuery(r)
        \/ CGenerateAnswerEmpty(r)
        \/ CGenerateAnswerReturns(r)
        \/ CGenerateAnswerRaises(r)
        \/ CHandleError(r)
        \/ CReturn(r)

SpecConc == Init /\ [][NextConc]_vars

---------------------------------------------------------------------------
(* main.py's interactive_mode around PhoneRAGAgent.answer_question         *)
(* (src/rag_agent.py), on the PhoneAdvisor's own DatabaseManager.          *)

FailedToGenerate == <<"Failed to generate SQL query.">>
NoResultsFound == <<"No results found for your query.">>
ModelError == <<"Connection error.">>

ExitWords == {<<"e", "x", "i", "t">>, <<"q", "u", "i", "t">>, <<"q">>}

\* lines the user can type at the prompt
CliLines == {<<>>, <<" ">>, <<"Q">>, <<"q", "u", "i", "t">>, <<" ", "5", "G", "?">>}

LowerAll(s) == [i \in 1..Len(s) |-> Lower(s[i])]

\* print(f"\nAnswer:\n{answer}\n") and print(f"Error: {e}\n")
PrintAnswer(answer) == [kind |-> "answer", text |-> answer]
PrintError(text) == [kind |-> "error", text |-> <<"Error: ">> \o text]

\* where the loop is after an exception of answer_question, were it not
\* caught in the loop
AfterException_Exit == "exited"

\* except Exception: the error is printed and the loop goes on
AfterException == "prompt"

Reported(text) ==
    [cli EXCEPT !.pc = AfterException, !.out = Some(PrintError(text)),
                !.reported = Append(@, text)]

CliFrame == UNCHANGED <<checkpoint, pc, cur, turn, result, asked, cleanVars, concVars, api>>

interactive_mode ==
    /\ cli.pc = "off"
    /\ cli' = [cli EXCEPT !.pc = "prompt"]
    /\ UNCHANGED <<txn, catalog>>
    /\ CliFrame

\* question = input(...).strip(): an exit word ends the loop, an empty line
\* prompts again, anything else goes to answer_question
ReadLine(line) ==
    /\ cli.pc = "prompt"
    /\ LET question == Strip(line)
       IN  IF LowerAll(question) \in ExitWords
           THEN cli' = [cli EXCEPT !.pc = "exited", !.quit = TRUE]
           ELSE IF question = <<>>
           THEN cli' = cli
           ELSE /\ cli.asked < MaxPrompts
                /\ cli' = [cli EXCEPT !.pc = "generate_sql", !.asked = @ + 1,
                                      !.sql = None, !.storeCalls = 0,
                                      !.storeOut = None, !.summaryCalls = 0,
                                      !.out = None]
    /\ UNCHANGED <<txn, catalog>>
    /\ CliFrame

\* Ctrl-C at the prompt
KeyboardInterrupt ==
    /\ cli.pc = "prompt"
    /\ cli' = [cli EXCEPT !.pc = "exited", !.quit = TRUE]
    /\ UNCHANGED <<txn, catalog>>
    /\ CliFrame

\* generate_sql returns; answer_question returns at once when it is empty
CliGenerateSql ==
    /\ cli.pc = "generate_sql"
    /\ \E content \in SqlOutputs :
         LET sql_query == CleanSql(content)
         IN  cli' = IF sql_query = <<>>
                    THEN [cli EXCEPT !.pc = "prompt", !.sql = Some(sql_query),
                                     !.out = Some(PrintAnswer(FailedToGenerate))]
                    ELSE [cli EXCEPT !.pc = "execute", !.sql = Some(sql_query)]
    /\ UNCHANGED <<txn, catalog>>
    /\ CliFrame

\* llm.invoke raises in generate_sql
CliGenerateSqlRaises ==
    /\ cli.pc = "generate_sql"
    /\ cli' = Reported(ModelError)
    /\ UNCHANGED <<txn, catalog>>
    /\ CliFrame

\* self.db.execute_query(sql_query): its exception leaves answer_question;
\* no rows end it with the fixed text
CliExecuteQuery ==
    /\ cli.pc = "execute"
    /\ \E resp \in DbResponses(txn, cli.sql[1], catalog) :
         LET r == execute_query(cli.sql[1], txn, resp, catalog)
             called == [cli EXCEPT !.storeCalls = @ + 1, !.storeOut = Some(r)]
         IN  /\ txn' = r.txn
             /\ catalog' = r.catalog
             /\ cli' = IF r.raised
                       THEN [called EXCEPT
                                !.pc = AfterException,
                                !.out = Some(PrintError(r.text)),
                                !.reported = Append(@, r.text)]
                       ELSE IF r.rows = <<>>
                       THEN [called EXCEPT
                                !.pc = "prompt",
                                !.out = Some(PrintAnswer(NoResultsFound))]
                       ELSE [called EXCEPT !.pc = "summary"]
    /\ CliFrame

\* _generate_summary returns response.content.strip()
CliSummary ==
    /\ cli.pc = "summary"
    /\ \E content \in AnswerOutputs :
         cli' = [cli EXCEPT !.pc = "prompt", !.summaryCalls = @ + 1,
                            !.out = Some(PrintAnswer(Strip(content)))]
    /\ UNCHANGED <<txn, catalog>>
    /\ CliFrame

\* llm.invoke raises in _generate_summary
CliSummaryRaises ==
    /\ cli.pc = "summary"
    /\ cli' = [Reported(ModelError) EXCEPT !.summaryCalls = @ + 1]
    /\ UNCHANGED <<txn, catalog>>
    /\ CliFrame

NextCli ==
    \/ interactive_mode
    \/ \E line \in CliLines : ReadLine(line)
    \/ KeyboardInterrupt
    \/ CliGenerateSql
    \/ CliGenerateSqlRaises
    \/ CliExecuteQuery
    \/ CliSummary
    \/ CliSummaryRaises

SpecCli == Init /\ [][NextCli]_vars

---------------------------------------------------------------------------
(* api.py: startup_event and the request handlers.  The handlers read the  *)
(* two globals; they run one at a time on the event loop, ask included,    *)
(* which ask_question calls synchronously.  Whether requests are           *)
(* dispatched before startup_event ran or after it raised is up to the     *)
(* ASGI server: the handlers are modelled in every state of the globals.   *)

\* the question text of the /ask requests
ApiQuestion == <<"Which phones have 5G?">>

\* the SELECT statements search_phones, get_popular_phones,
\* get_phone_details and get_statistics build
ApiSelect == SelectName

Response(endpoint, status, ranTurn, ranQuery, count) ==
    [endpoint |-> endpoint,   \* the route
     status |-> status,       \* HTTP status of the answer
     ranTurn |-> ranTurn,     \* rag_agent.ask was called
     ranQuery |-> ranQuery,   \* cursor.execute was called
     count |-> count]         \* rows or messages in the body

ApiFrame == UNCHANGED <<checkpoint, pc, cur, turn, result, asked, cleanVars, concVars, cli>>

\* startup_event: the manager connects and the agent is built
StartupOk ==
    /\ api.started = "no"
    /\ api' = [api EXCEPT !.started = "up", !.db_manager = "connected",
                          !.rag_agent = "ready"]
    /\ UNCHANGED <<txn, catalog>>
    /\ ApiFrame

\* startup_event: db_manager is assigned, then connect() raises
StartupConnectFails ==
    /\ api.started = "no"
    /\ api' = [api EXCEPT !.started = "failed", !.db_manager = "unconnected"]
    /\ UNCHANGED <<txn, catalog>>
    /\ ApiFrame

\* startup_event: the manager connects, then PhoneRAGGraph(...) raises
StartupAgentFails ==
    /\ api.started = "no"
    /\ api' = [api EXCEPT !.started = "failed", !.db_manager = "connected"]
    /\ UNCHANGED <<txn, catalog>>
    /\ ApiFrame

\* no handler is running
Serving == pc = "idle" /\ ~IsSome(api.pending)

\* ask_question up to the call of rag_agent.ask
AskQuestion(t) ==
    /\ Serving
    /\ IF api.rag_agent = "None"
       THEN /\ api' = [api EXCEPT
                  !.last = Some(Response("/ask", 503, FALSE, FALSE, 0))]
            /\ UNCHANGED <<txn, catalog>>
            /\ ApiFrame
       ELSE /\ StartTurn(t, ApiQuestion)
            /\ api' = [api EXCEPT !.pending = Some(t), !.last = None]

\* ask_question after rag_agent.ask: the QuestionResponse, or 500 for an
\* exception
AskQuestionResponds ==
    /\ pc = "idle"
    /\ IsSome(api.pending)
    /\ api' = [api EXCEPT
           !.pending = None,
           !.last = Some(Response("/ask",
                                  IF result[1].raised THEN 500 ELSE 200,
                                  TRUE, turn.storeCalls /= <<>>,
                                  Len(result[1].results)))]
    /\ UNCHANGED <<txn, catalog>>
    /\ ApiFrame

get_thread_history(t) ==
    /\ Serving
    /\ api' = [api EXCEPT !.last = Some(
           IF api.rag_agent = "None"
           THEN Response("/thread", 503, FALSE, FALSE, 0)
           ELSE Response("/thread", 200, FALSE, FALSE,
                         Len(get_conversation_history(t))))]
    /\ UNCHANGED <<txn, catalog>>
    /\ ApiFrame

\* the status of a store endpoint whose query returned
StatusOfRows(endpoint, rows) ==
    IF endpoint = "/phones/{id}" /\ rows = <<>> THEN 404 ELSE 200

\* a store endpoint: the guard on db_manager, then execute_query in a
\* try/except that answers 500
StoreRequest(endpoint) ==
    /\ Serving
    /\ IF api.db_manager = "None"
       THEN /\ api' = [api EXCEPT
                  !.last = Some(Response(endpoint, 503, FALSE, FALSE, 0))]
            /\ UNCHANGED <<txn, catalog>>
       ELSE IF api.db_manager = "unconnected"
       THEN \* self.cursor is None: cursor.execute raises AttributeError
            /\ api' = [api EXCEPT
                  !.last = Some(Response(endpoint, 500, FALSE, FALSE, 0))]
            /\ UNCHANGED <<txn, catalog>>
       ELSE \E resp \in DbResponses(txn, ApiSelect, catalog) :
              LET r == execute_query(ApiSelect, txn, resp, catalog)
              IN  /\ txn' = r.txn
                  /\ catalog' = r.catalog
                  /\ api' = [api EXCEPT !.last = Some(
                         IF r.raised
                         THEN Response(endpoint, 500, FALSE, TRUE, 0)
                         ELSE Response(endpoint, StatusOfRows(endpoint, r.rows),
                                       FALSE, TRUE, Len(r.rows)))]
    /\ ApiFrame

search_phones == StoreRequest("/search")
get_popular_phones == StoreRequest("/phones/popular")
get_phone_details == StoreRequest("/phones/{id}")
get_statistics == StoreRequest("/stats")

NextApi ==
    \/ StartupOk
    \/ StartupConnectFails
    \/ StartupAgentFails
    \/ \E t \in Threads : AskQuestion(t)
    \/ AskQuestionResponds
    \/ \E t \in Threads : get_thread_history(t)
    \/ search_phones
    \/ get_popular_phones
    \/ get_phone_details
    \/ get_statistics
    \/ ExtractQuestion
    \/ GenerateSqlReturns
    \/ GenerateSqlRaises
    \/ ExecuteQuery
    \/ GenerateAnswerEmpty
    \/ GenerateAnswerReturns
    \/ GenerateAnswerRaises
    \/ HandleError
    \/ AskReturn

SpecApi == Init /\ [][NextApi]_vars

---------------------------------------------------------------------------
(* Vocabulary of the properties *)

Last(s) == s[Len(s)]

\* text occurs in answer as a contiguous piece
Embeds(answer, text) ==
    \E i \in 1..(Len(answer) + 1) :
        /\ i + Len(text) - 1 <= Len(answer)
        /\ SubSeq(answer, i, i + Len(text) - 1) = text

\* the answer is handle_error's template around some error text
IsErrorTemplate(answer) ==
    /\ Len(answer) >= Len(ErrorPrefix) + Len(ErrorSuffix)
    /\ SubSeq(answer, 1, Len(ErrorPrefix)) = ErrorPrefix
    /\ SubSeq(answer, Len(answer) - Len(ErrorSuffix) + 1, Len(answer)) = ErrorSuffix

\* the in-flight turn is over: the graph is at END or ask has finished
AtEnd == pc = "END"
Returned == pc = "idle" /\ IsSome(result) /\ ~result[1].raised
Raised == pc = "idle" /\ IsSome(result) /\ result[1].raised
NoCallInFlight == pc = "idle"

\* what the store did in this turn
StoreRaised == IsSome(turn.storeOut) /\ turn.storeOut[1].raised
StoreReturned == IsSome(turn.storeOut) /\ ~turn.storeOut[1].raised

\* the SQL model returned in this turn; sql_query is then this turn's
SqlReturned == IsSome(turn.sqlOut)
SqlFailed == turn.sqlCalls > 0 /\ ~IsSome(turn.sqlOut) /\ pc /= "generate_sql"

\* state.get("final_answer", "") of the in-flight thread
FinalAnswer == Get(state.final_answer, <<>>)

---------------------------------------------------------------------------
(* C1 *)

\* C1: after N ask calls on a thread, whatever their outcomes, the history
\* has exactly 2N entries: the user utterance of call i followed by one
\* assistant utterance, for each i in call order.
C1_HistoryTwoPerTurn ==
    NoCallInFlight =>
        \A t \in Threads :
            LET h == get_conversation_history(t)
            IN  /\ Len(h) = 2 * Len(asked[t])
                /\ \A i \in 1..Len(asked[t]) :
                      /\ h[2 * i - 1] = HumanMessage(asked[t][i])
                      /\ h[2 * i].role = "assistant"

---------------------------------------------------------------------------
(* C2 *)

\* C2: whenever the workflow is at END, final_answer is a non-empty string.
C2_FinalAnswerNonEmptyAtEnd == AtEnd => FinalAnswer /= <<>>

---------------------------------------------------------------------------
(* C3 *)

\* C3 as claimed: at END exactly one of "final_answer is non-empty" and
\* "error is present" holds.
C3_ExactlyOneAtEnd ==
    AtEnd => ((FinalAnswer /= <<>>) /= IsSome(state.error))

\* C3 as amended: at END, when error is present final_answer is non-empty
\* too: it is handle_error's message around that error text.
C3_ErrorPresentImpliesAnswer ==
    (AtEnd /\ IsSome(state.error)) =>
        /\ FinalAnswer /= <<>>
        /\ FinalAnswer = ErrorPrefix \o state.error[1] \o ErrorSuffix

C3_Witness ==
    AtEnd /\ StoreRaised /\ IsSome(state.error) /\ FinalAnswer /= <<>>

---------------------------------------------------------------------------
(* C4 *)

\* C4: when the store raises while executing the turn's SQL, the exception
\* is caught, the workflow goes to handle_error, and ask returns (does not
\* raise) an answer that embeds the text of the store's exception.
C4_StoreFailureHandled ==
    StoreRaised =>
        /\ pc \in {"handle_error", "END", "idle"}
        /\ pc \in {"END", "idle"} =>
              /\ Last(turn.visited) = "handle_error"
              /\ Embeds(FinalAnswer, turn.storeOut[1].text)
        /\ pc = "idle" =>
              /\ Returned
              /\ Embeds(result[1].answer, turn.storeOut[1].text)

C4_Witness ==
    /\ StoreRaised /\ Returned
    /\ turn.storeOut[1].text /= <<>>
    /\ Embeds(result[1].answer, turn.storeOut[1].text)

---------------------------------------------------------------------------
(* C5 *)

\* C5: the rows ask returns are the rows the store returned in this turn,
\* and are empty when this turn's query was not executed or failed.
C5_RowsAreThisTurns ==
    Returned =>
        result[1].results =
            IF StoreReturned THEN turn.storeOut[1].rows ELSE <<>>

---------------------------------------------------------------------------
(* C6 *)

\* C6: in a turn where the store returns zero rows without raising, the
\* turn is no error: the final answer is the canned no-results message and
\* the only model call of the turn is the SQL-synthesis one.
C6_EmptyResultShortCircuit ==
    (StoreReturned /\ turn.storeOut[1].rows = <<>> /\ pc \in {"END", "idle"}) =>
        /\ FinalAnswer = NoResultsMsg
        /\ turn.answerCalls = 0
        /\ turn.sqlCalls = 1
        /\ Last(turn.visited) = "generate_answer"

---------------------------------------------------------------------------
(* C7 *)

\* C7: in a turn whose sanitized SQL fails the validity check, the workflow
\* goes from generate_sql straight to handle_error, the store is never
\* called, the final answer is the error-template message, and the turn
\* ends at END with ask returning.
C7_InvalidSqlRouting ==
    (SqlReturned /\ Len(state.sql_query[1]) <= MinSqlLen) =>
        /\ turn.storeCalls = <<>>
        /\ ~IsSome(turn.storeOut)
        /\ pc \in {"handle_error", "END", "idle"}
        /\ pc = "handle_error" => ENABLED HandleError
        /\ pc = "END" => ENABLED AskReturn
        /\ pc \in {"END", "idle"} =>
              /\ turn.visited = <<"extract_question", "generate_sql", "handle_error">>
              /\ IsErrorTemplate(FinalAnswer)
        /\ pc = "idle" => Returned

C7_Witness ==
    /\ Returned
    /\ turn.sqlOut = Some(<<"n", "o">>)
    /\ turn.visited = <<"extract_question", "generate_sql", "handle_error">>
    /\ turn.storeCalls = <<>>

---------------------------------------------------------------------------
(* C8 *)

\* C8: in a turn with a valid sanitized SQL S for which the store returns
\* non-empty rows R, and with T the answer model's text, the store is
\* called with exactly S and ask returns answer = T stripped, sql_query = S
\* and results = R.
C8_SuccessfulTurnResult ==
    (NoCallInFlight /\ ~Raised /\ SqlReturned
        /\ Len(state.sql_query[1]) > MinSqlLen
        /\ StoreReturned /\ turn.storeOut[1].rows /= <<>>) =>
        /\ turn.storeCalls = <<state.sql_query[1]>>
        /\ Returned
        /\ IsSome(turn.answerOut)
        /\ result[1].answer = Strip(turn.answerOut[1])
        /\ result[1].sql_query = state.sql_query[1]
        /\ result[1].results = turn.storeOut[1].rows

---------------------------------------------------------------------------
(* C9 *)

\* C9: when the SQL-synthesis model call fails, the turn is routed to
\* handle_error: ask does not raise, an assistant error message is appended
\* and final_answer is set; the call is made once.
C9_SqlModelFailureHandled ==
    SqlFailed =>
        /\ turn.sqlCalls = 1
        /\ pc \in {"handle_error", "END", "idle"}
        /\ pc = "idle" =>
              /\ Returned
              /\ "handle_error" \in {turn.visited[i] : i \in 1..Len(turn.visited)}
              /\ Last(state.messages).role = "assistant"
              /\ IsErrorTemplate(FinalAnswer)

---------------------------------------------------------------------------
(* C10 *)

\* no fence, no whitespace at either end, no semicolon at the end
IsCleanText(s) ==
    /\ ~HasFence(s)
    /\ s /= <<>> => /\ s[1] \notin Whitespace
                    /\ s[Len(s)] \notin Whitespace
                    /\ s[Len(s)] /= ";"

\* C10: _clean_sql returns an already-clean string unchanged, and turns the
\* fenced, tagged, semicolon-terminated SELECT 1 into the bare SELECT 1.
C10_CleanFixpointAndExample ==
    cleanDone =>
        /\ IsCleanText(cleanIn) => cleanOut = cleanIn
        /\ cleanIn = FencedSelect1 => cleanOut = Select1

C10_Witness ==
    /\ cleanDone
    /\ cleanIn = FencedSelect1
    /\ cleanOut = Select1

---------------------------------------------------------------------------
(* C11 *)

RunReturned(r) == runs[r].pc = "returned"

\* no other call was made on the run's thread_id
AloneOnThread(r) ==
    \A o \in Runs \ {r} : runs[o].pc = "new" \/ runs[o].thread /= runs[r].thread

\* a step changes the stored state of a thread_id only if it is a step of a
\* call on that thread_id
OnlyOwnThreadChanges ==
    \A t \in Threads :
        (checkpoint'[t] /= checkpoint[t] \/
         get_conversation_history(t)' /= get_conversation_history(t)) =>
            \E r \in Runs : runs'[r] /= runs[r] /\ runs'[r].thread = t

\* the thread of a finished call that shared its thread_id with no other
\* call holds that call's turn and nothing else
AloneMeansOwnTurnOnly ==
    \A r \in Runs :
        (RunReturned(r) /\ AloneOnThread(r)) =>
            /\ checkpoint[runs[r].thread] = runs[r].st
            /\ get_conversation_history(runs[r].thread) =
                   <<HumanMessage(runs[r].q), AIMessage(runs[r].result[1].answer)>>

---------------------------------------------------------------------------
(* C12 *)

BothReturnedOnOneThread ==
    /\ RunReturned("r1") /\ RunReturned("r2")
    /\ runs["r1"].thread = runs["r2"].thread

Overlapped == runs["r1"].overlapped \/ runs["r2"].overlapped

TurnOf(r) ==
    <<HumanMessage(runs[r].q), AIMessage(runs[r].result[1].answer)>>

\* the history is one call's turn followed by the other's
InOrderHistory(t) ==
    \E a \in Runs : \E b \in Runs \ {a} :
        get_conversation_history(t) = TurnOf(a) \o TurnOf(b)

\* C12: two ask calls that run concurrently on one thread_id, with no
\* synchronization, leave a history that is not user, assistant, user,
\* assistant with each answer after its question (and two calls that do not
\* overlap leave exactly that).
C12_OverlapCorruptsHistory ==
    BothReturnedOnOneThread =>
        (Overlapped <=> ~InOrderHistory(runs["r1"].thread))

C12_Witness ==
    /\ BothReturnedOnOneThread
    /\ Overlapped
    /\ ~InOrderHistory(runs["r1"].thread)
    /\ Len(get_conversation_history(runs["r1"].thread)) < 4

---------------------------------------------------------------------------
(* C13 *)

IsPrefix(a, b) == Len(a) <= Len(b) /\ SubSeq(b, 1, Len(a)) = a

\* C13: the history of a thread only grows by appending: every step leaves
\* the history it found as a prefix of the history it leaves.
C13_HistoryAppendOnly ==
    [][\A t \in Threads :
          IsPrefix(get_conversation_history(t), get_conversation_history(t)')]_vars

C13_Witness ==
    /\ NoCallInFlight
    /\ Len(asked[cur]) = 2
    /\ Len(get_conversation_history(cur)) = 4

---------------------------------------------------------------------------
(* C14 *)

Visited(node) == \E i \in 1..Len(turn.visited) : turn.visited[i] = node

InvalidSqlThisTurn == SqlReturned /\ Len(state.sql_query[1]) <= MinSqlLen

\* C14: the branch after execute_query follows this turn's store call: a
\* store call that returns leads to generate_answer and not handle_error, a
\* store call that raises leads to handle_error and not generate_answer;
\* and error is present at the end of a turn only if a failure occurred in
\* that turn.
C14_BranchFollowsThisTurnsStoreCall ==
    /\ StoreReturned =>
          /\ ~Visited("handle_error")
          /\ pc \in {"generate_answer", "END", "idle"}
    /\ StoreRaised =>
          /\ ~Visited("generate_answer")
          /\ pc \in {"handle_error", "END", "idle"}
    /\ (pc \in {"END", "idle"} /\ turn.visited /= <<>> /\ IsSome(state.error)) =>
          (StoreRaised \/ InvalidSqlThisTurn \/ Raised)

---------------------------------------------------------------------------
(* C15 *)

Traversals ==
    {<<"extract_question", "generate_sql", "handle_error">>,
     <<"extract_question", "generate_sql", "execute_query", "generate_answer">>,
     <<"extract_question", "generate_sql", "execute_query", "handle_error">>}

IsTraversalPrefix(v) == \E p \in Traversals : IsPrefix(v, p)

NodeNames ==
    {"extract_question", "generate_sql", "execute_query", "generate_answer",
     "handle_error"}

OneTraversal ==
    /\ IsTraversalPrefix(turn.visited)
    /\ pc \in NodeNames => IsTraversalPrefix(Append(turn.visited, pc))
    /\ pc = "END" => turn.visited \in Traversals
    /\ \A i \in 1..Len(turn.visited) : \A j \in 1..Len(turn.visited) :
          turn.visited[i] = turn.visited[j] => i = j
    /\ ~(Visited("handle_error") /\ Visited("generate_answer"))

\* a step of the running graph (everything but the start of a new call)
GraphStep ==
    \/ ExtractQuestion
    \/ GenerateSqlReturns
    \/ GenerateSqlRaises
    \/ ExecuteQuery
    \/ GenerateAnswerEmpty
    \/ GenerateAnswerReturns
    \/ GenerateAnswerRaises
    \/ HandleError
    \/ AskReturn

\* app.invoke runs the graph to the end: a started turn keeps stepping
SpecLive == Spec /\ WF_vars(GraphStep)

---------------------------------------------------------------------------
(* C16 *)

\* C16: a turn makes at most two model calls and one store call; the store
\* call comes only after a SQL that passed the validity check, the answer
\* model call only after a store call that returned rows; a turn through
\* handle_error makes exactly one model call.
C16_CallBudgetAndOrder ==
    /\ turn.sqlCalls <= 1
    /\ turn.answerCalls <= 1
    /\ Len(turn.storeCalls) <= 1
    /\ turn.storeCalls /= <<>> =>
          /\ SqlReturned
          /\ turn.sqlCalls = 1
          /\ Len(state.sql_query[1]) > MinSqlLen
    /\ turn.answerCalls > 0 =>
          /\ Len(turn.storeCalls) = 1
          /\ StoreReturned
          /\ turn.storeOut[1].rows /= <<>>
    /\ Visited("handle_error") =>
          turn.sqlCalls + turn.answerCalls = 1

C16_Witness ==
    /\ Returned
    /\ turn.sqlCalls = 1
    /\ Len(turn.storeCalls) = 1
    /\ turn.answerCalls = 1

---------------------------------------------------------------------------
(* C17 *)

JustRouted == SqlReturned /\ Last(turn.visited) = "generate_sql"

\* C17: the edge out of generate_sql goes to execute_query exactly when the
\* sanitized SQL is longer than 10 characters, to handle_error otherwise,
\* whatever the text is.
C17_ValidIffLongerThanTen ==
    JustRouted =>
        /\ pc = "execute_query" <=> Len(state.sql_query[1]) > 10
        /\ pc = "handle_error" <=> Len(state.sql_query[1]) <= 10

C17_Witness ==
    /\ JustRouted
    /\ Len(state.sql_query[1]) = 10
    /\ pc = "handle_error"

---------------------------------------------------------------------------
(* C18 *)

\* C18: handle_error's message embeds the error recorded in this turn when
\* the store failed in this turn, and the "Unknown error" placeholder when
\* no error was recorded in this turn; the same text is the last assistant
\* message and final_answer.
C18_ErrorMessageOfThisTurn ==
    (pc \in {"END", "idle"} /\ turn.visited /= <<>>
        /\ Last(turn.visited) = "handle_error") =>
        /\ FinalAnswer =
              IF StoreRaised
              THEN ErrorAnswer(DatabaseError(turn.storeOut[1].text))
              ELSE ErrorAnswer(UnknownError)
        /\ Last(state.messages) = AIMessage(FinalAnswer)

---------------------------------------------------------------------------
(* C19 *)

\* C19: in every turn the question extract_question sets is the text passed
\* to ask for this turn, and extract_question can always run.
C19_QuestionIsThisTurns ==
    /\ pc = "extract_question" =>
          /\ state.messages /= <<>>
          /\ ENABLED ExtractQuestion
    /\ turn.visited /= <<>> => state.question = Some(turn.question)

C19_Witness ==
    /\ Len(asked[cur]) = 2
    /\ asked[cur][1] /= asked[cur][2]
    /\ pc = "generate_sql"
    /\ state.question = Some(asked[cur][2])

---------------------------------------------------------------------------
(* C20 *)

RECURSIVE TrailingSemicolons(_)
TrailingSemicolons(s) ==
    IF s = <<>> \/ s[Len(s)] /= ";" THEN 0
    ELSE 1 + TrailingSemicolons(SubSeq(s, 1, Len(s) - 1))

Semicolons(k) == [i \in 1..k |-> ";"]

\* the input with its fences removed and its whitespace trimmed
TrimmedInput == Strip(RemoveFences(cleanIn))

\* C20 as claimed: no fence is left, and of the k >= 1 semicolons that end
\* the trimmed text, one is stripped: k - 1 are left.
C20_OneSemicolonStripped ==
    (cleanDone /\ TrailingSemicolons(TrimmedInput) >= 1) =>
        /\ ~HasFence(cleanOut)
        /\ TrailingSemicolons(cleanOut) = TrailingSemicolons(TrimmedInput) - 1

\* C20 as amended: no fence is left, and all of the k >= 1 semicolons that
\* end the trimmed text are stripped: the output is the trimmed text
\* without them and ends in no semicolon.
C20_AllSemicolonsStripped ==
    cleanDone =>
        /\ ~HasFence(cleanOut)
        /\ cleanOut /= <<>> => cleanOut[1] \notin Whitespace
        /\ TrailingSemicolons(cleanOut) = 0
        /\ TrimmedInput =
              cleanOut \o Semicolons(TrailingSemicolons(TrimmedInput))

C20_Witness ==
    /\ cleanDone
    /\ cleanIn = Select1 \o <<";", ";">>
    /\ cleanOut = Select1

---------------------------------------------------------------------------
(* C21 *)

ThisTurnsSql == CleanSql(turn.sqlOut[1])

SynthesisFailed == Len(ThisTurnsSql) <= MinSqlLen

\* C21: at the end of a turn sql_query is the sanitized SQL of this turn
\* when it passed the validity check and is empty when it failed it, and
\* ask returns that value: an empty sql_query for an invalid-SQL turn.
C21_SqlQueryOfThisTurnOrEmpty ==
    /\ (AtEnd \/ Returned) =>
          Get(state.sql_query, <<>>) =
              IF SynthesisFailed THEN <<>> ELSE ThisTurnsSql
    /\ Returned =>
          result[1].sql_query = IF SynthesisFailed THEN <<>> ELSE ThisTurnsSql

---------------------------------------------------------------------------
(* C22 *)

\* the answer-synthesis model call of this turn raised
AnswerCallRaised == turn.answerCalls > 0 /\ ~IsSome(turn.answerOut)

\* the step in which the answer-synthesis model call raises
AnswerCallRaises ==
    /\ pc = "generate_answer"
    /\ turn'.answerCalls = turn.answerCalls + 1
    /\ ~IsSome(turn'.answerOut)

AnswerFailurePropagates ==
    /\ AnswerCallRaises =>
          /\ checkpoint' = checkpoint
          /\ pc' = "idle"
          /\ result' = Some(AskRaised)
    /\ \A t \in Threads :
          checkpoint'[t].final_answer /= checkpoint[t].final_answer =>
              pc' = "END"

AnswerFailureLeft ==
    AnswerCallRaised =>
        /\ Raised
        /\ StoreReturned /\ turn.storeOut[1].rows /= <<>>
        /\ ~Visited("handle_error")
        /\ Last(get_conversation_history(cur)) = HumanMessage(turn.question)

\* C22: when the answer-synthesis model call raises after a store call that
\* returned rows, the turn does not go to handle_error: ask raises, and the
\* step writes neither final_answer nor an assistant message.
C22_AnswerFailurePropagates ==
    [][AnswerFailurePropagates]_vars /\ []AnswerFailureLeft

C22_Witness ==
    /\ AnswerCallRaised
    /\ Raised
    /\ Len(get_conversation_history(cur)) = 1

---------------------------------------------------------------------------
(* C23 *)

\* C23: after every execute_query call the connection is in no open or
\* aborted transaction, so a statement that is not empty can return rows
\* whatever the earlier calls did.
C23_TransactionFinalizedEveryCall ==
    /\ txn = "idle"
    /\ (pc = "execute_query" /\ ~IsEmptyStatement(state.sql_query[1])) =>
          \E resp \in DbResponses(txn, state.sql_query[1], catalog) :
              resp.kind /= "error"

---------------------------------------------------------------------------
(* C27 *)

Alternating(h) ==
    /\ Len(h) % 2 = 0
    /\ \A i \in 1..Len(h) :
          h[i].role = IF i % 2 = 1 THEN "user" ELSE "assistant"

\* C27: a call of ask that raised has left no trace in the thread's
\* history: no user message without its assistant message, the history
\* still alternates.
C27_RaisedTurnLeavesNoTrace ==
    Raised => Alternating(get_conversation_history(cur))

---------------------------------------------------------------------------
(* C26 *)

EndsInWhitespace(s) == s /= <<>> /\ s[Len(s)] \in Whitespace

---------------------------------------------------------------------------
(* C24 *)

\* C24: no turn changes the rows of the store: whatever the SQL model
\* returned, the table holds after the turn what it held before.
C24_StoreNeverMutated == catalog = InitialCatalog

---------------------------------------------------------------------------
(* C25 *)

AgentEndpoints == {"/ask", "/thread"}
StoreEndpoints == {"/search", "/phones/popular", "/phones/{id}", "/stats"}

\* what the endpoint needs was not there when startup_event ended
UnavailableFor(endpoint) ==
    \/ endpoint \in AgentEndpoints /\ api.rag_agent /= "ready"
    \/ endpoint \in StoreEndpoints /\ api.db_manager /= "connected"

\* C25: a request to an endpoint whose store connection or agent was
\* unavailable at startup is answered 503, never 500, and runs neither a
\* workflow turn nor a store query.
C25_UnavailableAnswers503 ==
    (IsSome(api.last) /\ UnavailableFor(api.last[1].endpoint)) =>
        /\ api.last[1].status = 503
        /\ ~api.last[1].ranTurn
        /\ ~api.last[1].ranQuery

---------------------------------------------------------------------------
(* C28 *)

CliStoreRaised == IsSome(cli.storeOut) /\ cli.storeOut[1].raised
CliStoreReturned == IsSome(cli.storeOut) /\ ~cli.storeOut[1].raised

\* C28: answer_question calls the store only with a non-empty sanitized
\* SQL and answers "Failed to generate SQL query." otherwise; it calls the
\* summary model only after the store returned a row and answers "No
\* results found for your query." otherwise; a store exception is printed
\* by interactive_mode, which goes on prompting: the loop ends only when
\* the user ends it.
C28_CliCallsAndErrors ==
    /\ cli.storeCalls <= 1 /\ cli.summaryCalls <= 1
    /\ (cli.storeCalls > 0 \/ cli.pc = "execute") =>
          IsSome(cli.sql) /\ cli.sql[1] /= <<>>
    /\ (IsSome(cli.sql) /\ cli.sql[1] = <<>>) =>
          /\ cli.out = Some(PrintAnswer(FailedToGenerate))
          /\ cli.storeCalls = 0
          /\ cli.summaryCalls = 0
    /\ (IsSome(cli.sql) /\ cli.sql[1] /= <<>>) =>
          (cli.storeCalls = 1 \/ cli.pc = "execute")
    /\ (cli.summaryCalls > 0 \/ cli.pc = "summary") =>
          CliStoreReturned /\ cli.storeOut[1].rows /= <<>>
    /\ (CliStoreReturned /\ cli.storeOut[1].rows = <<>>) =>
          /\ cli.out = Some(PrintAnswer(NoResultsFound))
          /\ cli.summaryCalls = 0
    /\ CliStoreRaised =>
          /\ cli.out = Some(PrintError(cli.storeOut[1].text))
          /\ cli.summaryCalls = 0
          /\ cli.pc /= "summary"
    /\ cli.pc = "exited" => cli.quit
    /\ (cli.pc = "prompt" /\ cli.asked < MaxPrompts) =>
          \A line \in CliLines : ENABLED ReadLine(line)

C28_Witness ==
    /\ Len(cli.reported) = 1
    /\ cli.reported[1] \in ServerErrors
    /\ cli.asked = 2
    /\ cli.pc = "generate_sql"

===========================================================================
